---- MODULE Spec2Model ----
(***************************************************************************)
(* The code-explainer frontend: the CodeAnalyzer component (its state,    *)
(* its event handlers, the two backend calls it makes) and the            *)
(* CodeExplanation component (how an explanation text is cut into         *)
(* sections).                                                              *)
(*                                                                         *)
(* JavaScript strings that the code inspects (code, explanation text,     *)
(* lines) are sequences of tokens: " " is a whitespace character, "\n" a  *)
(* line break, every other token a run of non-whitespace text.  The empty *)
(* string is <<>>.  Identifiers that the code only compares and stores    *)
(* (language, method, model id, error message) are TLA+ strings, "" being *)
(* the empty string.                                                       *)
(***************************************************************************)
EXTENDS Integers, Sequences, FiniteSets, TLC

VARIABLES
    code,            \* useState('')            CodeAnalyzer.js:361
    language,        \* useState('javascript')  CodeAnalyzer.js:362
    explanation,     \* useState('')            CodeAnalyzer.js:363
    error,           \* useState('')            CodeAnalyzer.js:364
    loading,         \* useState(false)         CodeAnalyzer.js:365
    tabValue,        \* useState(0)             CodeAnalyzer.js:366
    analysisMethod,  \* useState('rule')        CodeAnalyzer.js:368
    analysisOptions, \* useState({methods: [], models: []})  CodeAnalyzer.js:369
    selectedModel,   \* useState('')            CodeAnalyzer.js:373
    inflight,        \* the POST /explain/ calls that have not settled yet: for
                     \* each, in the order sent, what the backend answered
    fetches,         \* how many GET /analyze_methods/ calls have not settled yet
    sections,        \* CodeExplanation's `sections` of the last render
    copySuccess,     \* useState(false)         CodeAnalyzer.js:367
    copies,          \* how many clipboard.writeText calls have not settled yet
    timers,          \* how many setTimeout callbacks of handleCopyExample are due
    hasError         \* ErrorBoundary's state.hasError   index.js:10

vars == <<code, language, explanation, error, loading, tabValue, analysisMethod,
          analysisOptions, selectedModel, inflight, fetches, sections,
          copySuccess, copies, timers, hasError>>

-----------------------------------------------------------------------------
(* Bounds *)

\* Longest code text the user types into the editor, in tokens.
MaxCodeLen == 1

\* Most lines of an explanation text handed to CodeExplanation on its own.
MaxTextLines == 4

\* POST /explain/ calls that may be pending at once when analyzeCode is
\* called directly, without the Analyze button in between.
MaxInFlight == 2

\* Copies of the example that may be under way at once: clipboard writes that
\* have not settled plus timers that have not fired.
MaxCopies == 2

-----------------------------------------------------------------------------
(* Strings *)

RECURSIVE SeqsUpTo(_, _)
\* All sequences over S of length at most n.
SeqsUpTo(S, n) ==
    IF n = 0 THEN {<<>>}
    ELSE LET shorter == SeqsUpTo(S, n - 1)
         IN  shorter \cup {Append(s, x) : s \in shorter, x \in S}

IsSpace(tok) == tok \in {" ", "\n"}

RECURSIVE TrimStart(_)
TrimStart(s) ==
    IF s # <<>> /\ IsSpace(Head(s)) THEN TrimStart(Tail(s)) ELSE s

RECURSIVE TrimEnd(_)
TrimEnd(s) ==
    IF s # <<>> /\ IsSpace(s[Len(s)]) THEN TrimEnd(SubSeq(s, 1, Len(s) - 1)) ELSE s

\* String.prototype.trim
Trim(s) == TrimEnd(TrimStart(s))

RECURSIVE Split(_)
\* String.prototype.split('\n'): the pieces between line breaks; a string
\* without a line break, the empty one included, is one piece.
Split(s) ==
    IF \E i \in 1..Len(s) : s[i] = "\n"
    THEN LET i == CHOOSE k \in 1..Len(s) :
                      s[k] = "\n" /\ \A j \in 1..(k - 1) : s[j] # "\n"
         IN  <<SubSeq(s, 1, i - 1)>> \o Split(SubSeq(s, i + 1, Len(s)))
    ELSE <<s>>

RemoveAt(s, i) == SubSeq(s, 1, i - 1) \o SubSeq(s, i + 1, Len(s))

-----------------------------------------------------------------------------
(* CodeExplanation.js *)

HeaderFunctional == <<"Functional Analysis:">>
HeaderVariables == <<"Variables defined:">>

\* GroupStep, were the Variables section started without its header line.
GroupStepHeaderDropped(acc, line) ==
    IF line = HeaderFunctional
    THEN [sections |-> IF Len(acc.cur.lines) > 0
                       THEN Append(acc.sections, acc.cur)
                       ELSE acc.sections,
          cur |-> [title |-> "Functional Analysis", lines |-> <<>>]]
    ELSE IF line = HeaderVariables
    THEN IF Len(acc.cur.lines) > 0 /\ acc.cur.title # "Variables"
         THEN [sections |-> Append(acc.sections, acc.cur),
               cur |-> [title |-> "Variables", lines |-> <<>>]]
         ELSE [acc EXCEPT !.cur.lines = Append(@, line)]
    ELSE [acc EXCEPT !.cur.lines = Append(@, line)]

\* One iteration of the loop of groupExplanationSections over `line`;
\* acc.sections is `sections`, acc.cur is `currentSection`.
GroupStep(acc, line) ==
    IF line = HeaderFunctional
    THEN [sections |-> IF Len(acc.cur.lines) > 0
                       THEN Append(acc.sections, acc.cur)
                       ELSE acc.sections,
          cur |-> [title |-> "Functional Analysis", lines |-> <<>>]]
    ELSE IF line = HeaderVariables
    THEN IF Len(acc.cur.lines) > 0 /\ acc.cur.title # "Variables"
         THEN [sections |-> Append(acc.sections, acc.cur),
               cur |-> [title |-> "Variables", lines |-> <<line>>]]
         ELSE [acc EXCEPT !.cur.lines = Append(@, line)]
    ELSE [acc EXCEPT !.cur.lines = Append(@, line)]

RECURSIVE GroupLoop(_, _)
GroupLoop(acc, lines) ==
    IF lines = <<>> THEN acc
    ELSE GroupLoop(GroupStep(acc, Head(lines)), Tail(lines))

groupExplanationSections(lines) ==
    LET acc == GroupLoop([sections |-> <<>>,
                          cur |-> [title |-> "Summary", lines |-> <<>>]], lines)
    IN  IF Len(acc.cur.lines) > 0
        THEN Append(acc.sections, acc.cur)
        ELSE acc.sections

\* const lines = explanation ? explanation.split('\n') : []
ExplanationLines(text) == IF text # <<>> THEN Split(text) ELSE <<>>

\* The sections CodeExplanation computes when rendered with `text`.
RenderSections(text) == groupExplanationSections(ExplanationLines(text))

\* The <ListItem>s of a section: line.trim() && (<ListItem ...>), one for each
\* line that has text.
ListItems(section) == SelectSeq(section.lines, LAMBDA line : Trim(line) # <<>>)

\* View, were the explanation looked at before the loading flag.
ViewExplanationFirst(isLoading, text) ==
    IF text # <<>> THEN "sections"
    ELSE IF isLoading THEN "skeleton"
    ELSE "placeholder"

\* What CodeExplanation renders below its heading, given its props:
\* loading ? skeleton : !explanation ? placeholder : the section list.
View(isLoading, text) ==
    IF isLoading THEN "skeleton"
    ELSE IF text = <<>> THEN "placeholder"
    ELSE "sections"

-----------------------------------------------------------------------------
(* CodeAnalyzer.js: constants *)

\* The <MenuItem> values of language-select.
LanguageMenu == {"javascript", "python", "java", "c++"}

\* MethodMenu, were the items taken from the fetched catalog.
MethodMenuFromCatalog ==
    {"rule", "nlp"}
    \cup {analysisOptions.methods[k] : k \in 1..Len(analysisOptions.methods)}

\* The <MenuItem> values of analysis-method-select.
MethodMenu == {"rule", "nlp"}

\* The sample of each language: one token of text, different per language.
codeExamples == [l \in {"javascript", "python", "java", "c++"} |-> <<"example", l>>]

EmptyCodeMsg == "Please enter some code to analyze"
GenericErrorMsg == "Failed to analyze code. Please try again later."
NoExplanationMsg == <<"No explanation was generated.">>

\* FallbackOptions without its first model.
FallbackOptionsNoGemini ==
    [methods |-> <<"rule", "nlp">>,
     models |-> <<"Salesforce/codegen-350M-mono", "microsoft/codebert-base">>]

\* The catalog fetchAnalysisMethods installs when the GET fails; a method or
\* model {id, name, description} is represented by its id.
FallbackOptions ==
    [methods |-> <<"rule", "nlp">>,
     models |-> <<"gemini-1.5-flash", "Salesforce/codegen-350M-mono",
                  "microsoft/codebert-base">>]

\* index.js renders the application under React.StrictMode, which runs the
\* mount effect of CodeAnalyzer twice: two GET /analyze_methods/ calls.
NumEffectRuns == 2

-----------------------------------------------------------------------------
(* The backend, as far as the frontend can observe it *)

\* What the user may type into the editor.
UserCode == SeqsUpTo({" ", "a"}, MaxCodeLen)

\* Bodies of GET /analyze_methods/ responses: a catalog with a method and
\* models the frontend does not know, and one without models.
ServerCatalogs ==
    {[methods |-> <<"rule", "nlp", "hybrid">>,
      models |-> <<"microsoft/codebert-base", "codet5-small">>],
     [methods |-> <<"rule", "nlp">>, models |-> <<>>]}

TextA == <<"x">>
TextB == <<"x", "\n", "Functional Analysis:", "\n", "x">>

\* An object without fields.
EmptyObject == [f \in {} |-> <<>>]

\* Bodies of 2xx responses to POST /explain/.  A body is a JSON object, given
\* as a record of the fields it has, or null.
OkBodies ==
    {[explanation |-> TextA],
     [full_explanation |-> TextB],
     [full_explanation |-> <<>>, summary |-> TextB],
     [error |-> "", user_friendly_summary |-> TextB],
     [error |-> "E1"]}

\* Bodies of non-2xx responses.
ErrorBodies == {[error |-> "E1"], EmptyObject}

\* How a POST settles: fulfilled with a 2xx response, rejected with a non-2xx
\* response (err.response set), or rejected without any response.
Responses ==
    [status : {"2xx"}, isNull : {FALSE}, data : OkBodies]
    \cup {[status |-> "2xx", isNull |-> TRUE, data |-> EmptyObject]}
    \cup [status : {"non2xx"}, isNull : {FALSE}, data : ErrorBodies]
    \cup {[status |-> "non2xx", isNull |-> TRUE, data |-> EmptyObject]}
    \cup {[status |-> "network", isNull |-> TRUE, data |-> EmptyObject]}

\* The POST has been sent and the backend has not answered.
Unanswered == [status |-> "none", isNull |-> TRUE, data |-> EmptyObject]

\* JavaScript truthiness of data.f where f holds text, and of data.error.
HasText(data, f) == f \in DOMAIN data /\ data[f] # <<>>
HasError(data) == "error" \in DOMAIN data /\ data.error # ""

-----------------------------------------------------------------------------
(* CodeAnalyzer.js: state *)

Init ==
    /\ code = <<>>
    /\ language = "javascript"
    /\ explanation = <<>>
    /\ error = ""
    /\ loading = FALSE
    /\ tabValue = 0
    /\ analysisMethod = "rule"
    /\ analysisOptions = [methods |-> <<>>, models |-> <<>>]
    /\ selectedModel = ""
    /\ inflight = <<>>
    /\ fetches = NumEffectRuns
    /\ sections = <<>>
    /\ copySuccess = FALSE
    /\ copies = 0
    /\ timers = 0
    /\ hasError = FALSE

-----------------------------------------------------------------------------
(* CodeAnalyzer.js: fetchAnalysisMethods *)

\* The try block: the GET is answered with catalog `data`.
FetchResolved(data) ==
    /\ fetches > 0
    /\ fetches' = fetches - 1
    /\ analysisOptions' = data
    /\ selectedModel' = IF Len(data.models) > 0 THEN data.models[1] ELSE selectedModel
    /\ UNCHANGED <<code, language, explanation, error, loading, tabValue,
                   analysisMethod, inflight, sections,
                   copySuccess, copies, timers, hasError>>

\* The catch block: the GET fails.
FetchRejected ==
    /\ fetches > 0
    /\ fetches' = fetches - 1
    /\ analysisOptions' = FallbackOptions
    /\ selectedModel' = "gemini-1.5-flash"
    /\ UNCHANGED <<code, language, explanation, error, loading, tabValue,
                   analysisMethod, inflight, sections,
                   copySuccess, copies, timers, hasError>>

-----------------------------------------------------------------------------
(* CodeAnalyzer.js: the handlers of the form *)

handleAnalysisMethodChange(value) ==
    /\ analysisMethod' = value
    /\ UNCHANGED <<code, language, explanation, error, loading, tabValue,
                   analysisOptions, selectedModel, inflight, fetches, sections,
                   copySuccess, copies, timers, hasError>>

\* The <MenuItem> values of model-select.
ModelMenu ==
    IF Len(analysisOptions.models) > 0
    THEN {analysisOptions.models[k] : k \in 1..Len(analysisOptions.models)}
    ELSE {""}

\* ModelSelectShown, were it the condition of the model information box:
\* analysisMethod === 'nlp' && selectedModel.
ModelSelectShownWithModel == analysisMethod = "nlp" /\ selectedModel # ""

\* {analysisMethod === 'nlp' && (...)}: is model-select rendered?
ModelSelectShown == analysisMethod = "nlp"

\* A choice in model-select, which takes the select to be rendered.
handleModelChange(value) ==
    /\ ModelSelectShown
    /\ selectedModel' = value
    /\ UNCHANGED <<code, language, explanation, error, loading, tabValue,
                   analysisMethod, analysisOptions, inflight, fetches, sections,
                   copySuccess, copies, timers, hasError>>

\* handleLanguageChange, were whitespace-only code taken for no code.
handleLanguageChangeTrim(value) ==
    /\ language' = value
    /\ code' = IF tabValue = 1 \/ Trim(code) = <<>> THEN codeExamples[value] ELSE code
    /\ UNCHANGED <<explanation, error, loading, tabValue, analysisMethod,
                   analysisOptions, selectedModel, inflight, fetches, sections,
                   copySuccess, copies, timers, hasError>>

handleLanguageChange(value) ==
    /\ language' = value
    /\ code' = IF tabValue = 1 \/ code = <<>> THEN codeExamples[value] ELSE code
    /\ UNCHANGED <<explanation, error, loading, tabValue, analysisMethod,
                   analysisOptions, selectedModel, inflight, fetches, sections,
                   copySuccess, copies, timers, hasError>>

\* handleCodeChange, were an edit to abort the pending requests.
handleCodeChangeAborting(value) ==
    /\ code' = value
    /\ inflight' = <<>>
    /\ loading' = FALSE
    /\ UNCHANGED <<language, explanation, error, tabValue, analysisMethod,
                   analysisOptions, selectedModel, fetches, sections,
                   copySuccess, copies, timers, hasError>>

handleCodeChange(value) ==
    /\ code' = value
    /\ UNCHANGED <<language, explanation, error, loading, tabValue, analysisMethod,
                   analysisOptions, selectedModel, inflight, fetches, sections,
                   copySuccess, copies, timers, hasError>>

\* handleTabChange, were the editor emptied on the way back to 'Your Code'.
handleTabChangeClearing(newValue) ==
    /\ tabValue' = newValue
    /\ code' = IF newValue = 1 THEN codeExamples[language] ELSE <<>>
    /\ UNCHANGED <<language, explanation, error, loading, analysisMethod,
                   analysisOptions, selectedModel, inflight, fetches, sections,
                   copySuccess, copies, timers, hasError>>

handleTabChange(newValue) ==
    /\ tabValue' = newValue
    /\ code' = IF newValue = 1 THEN codeExamples[language] ELSE code
    /\ UNCHANGED <<language, explanation, error, loading, analysisMethod,
                   analysisOptions, selectedModel, inflight, fetches, sections,
                   copySuccess, copies, timers, hasError>>

\* handleLoadExample, were it to load the sample of the first language.
handleLoadExampleFirst ==
    /\ tabValue = 0
    /\ code' = codeExamples["javascript"]
    /\ UNCHANGED <<language, explanation, error, loading, tabValue, analysisMethod,
                   analysisOptions, selectedModel, inflight, fetches, sections,
                   copySuccess, copies, timers, hasError>>

\* The Load Example button is rendered only on the 'Your Code' tab.
handleLoadExample ==
    /\ tabValue = 0
    /\ code' = codeExamples[language]
    /\ UNCHANGED <<language, explanation, error, loading, tabValue, analysisMethod,
                   analysisOptions, selectedModel, inflight, fetches, sections,
                   copySuccess, copies, timers, hasError>>

-----------------------------------------------------------------------------
(* CodeAnalyzer.js: analyzeCode *)

\* RequestData, were model_name added whatever the method.
RequestDataAnyMethod ==
    IF selectedModel # ""
    THEN [code |-> code, language |-> language, analysis_method |-> analysisMethod,
          model_name |-> selectedModel]
    ELSE [code |-> code, language |-> language, analysis_method |-> analysisMethod]

\* requestData, the body analyzeCode posts when it is called in this state.
RequestData ==
    IF analysisMethod = "nlp" /\ selectedModel # ""
    THEN [code |-> code, language |-> language, analysis_method |-> analysisMethod,
          model_name |-> selectedModel]
    ELSE [code |-> code, language |-> language, analysis_method |-> analysisMethod]

\* if (!code.trim()): is there nothing to analyze?
CodeIsBlankNoTrim == code = <<>>

CodeIsBlank == Trim(code) = <<>>

\* analyzeCode up to its await: the validation, and the POST of RequestData.
\* The body is built and handed to axios within the call and the frontend never
\* reads it again, so a pending POST is kept as its answer alone.
analyzeCode ==
    IF CodeIsBlank
    THEN /\ error' = EmptyCodeMsg
         /\ UNCHANGED <<code, language, explanation, loading, tabValue,
                        analysisMethod, analysisOptions, selectedModel, inflight,
                        fetches, sections,
                        copySuccess, copies, timers, hasError>>
    ELSE /\ error' = ""
         /\ loading' = TRUE
         /\ inflight' = Append(inflight, Unanswered)
         /\ UNCHANGED <<code, language, explanation, tabValue, analysisMethod,
                        analysisOptions, selectedModel, fetches, sections,
                        copySuccess, copies, timers, hasError>>

\* ButtonDisabled, were the code not looked at.
ButtonDisabledLoadingOnly == loading

\* ButtonDisabled, were the button left enabled during an analysis.
ButtonDisabledNotLoading == Trim(code) = <<>>

\* disabled={loading || !code.trim()} of the Analyze Code button.
ButtonDisabled == loading \/ Trim(code) = <<>>

\* A click on the Analyze Code button.
AnalyzeClick ==
    /\ ~ButtonDisabled
    /\ analyzeCode

\* analyzeCode called without the button in between.
AnalyzeCall ==
    /\ Len(inflight) < MaxInFlight
    /\ analyzeCode

\* The backend answers the i-th pending POST, or the connection fails.
BackendAnswer(i, resp) ==
    /\ inflight[i] = Unanswered
    /\ inflight' = [inflight EXCEPT ![i] = resp]
    /\ UNCHANGED <<code, language, explanation, error, loading, tabValue,
                   analysisMethod, analysisOptions, selectedModel, fetches, sections,
                   copySuccess, copies, timers, hasError>>

\* ExplanationOf without its last alternative.
ExplanationOfNoDefault(data) ==
    IF HasText(data, "full_explanation") THEN data.full_explanation
    ELSE IF HasText(data, "summary") THEN data.summary
    ELSE IF HasText(data, "user_friendly_summary") THEN data.user_friendly_summary
    ELSE <<>>

\* response.data.full_explanation || response.data.summary ||
\* response.data.user_friendly_summary || 'No explanation was generated.'
ExplanationOf(data) ==
    IF HasText(data, "full_explanation") THEN data.full_explanation
    ELSE IF HasText(data, "summary") THEN data.summary
    ELSE IF HasText(data, "user_friendly_summary") THEN data.user_friendly_summary
    ELSE NoExplanationMsg

\* CatchError, were the body of the error response not looked at.
CatchErrorGeneric(resp) == GenericErrorMsg

\* The message the catch block sets for a rejection with response `resp`
\* (status "network": err.response is undefined).
CatchError(resp) ==
    IF resp.status = "non2xx" /\ ~resp.isNull /\ HasError(resp.data)
    THEN resp.data.error
    ELSE GenericErrorMsg

\* analyzeCode after its await, the promise fulfilled with a 2xx response.
\* Reading response.data.error of a null body throws a TypeError, which the
\* catch block handles as an error without response.
PostFulfilled(i) ==
    /\ inflight[i].status = "2xx"
    /\ LET resp == inflight[i]
       IN  IF resp.isNull
           THEN /\ error' = GenericErrorMsg
                /\ UNCHANGED <<explanation, sections>>
           ELSE IF HasError(resp.data)
           THEN /\ error' = resp.data.error
                /\ UNCHANGED <<explanation, sections>>
           ELSE /\ explanation' = ExplanationOf(resp.data)
                /\ sections' = RenderSections(ExplanationOf(resp.data))
                /\ UNCHANGED error
    /\ loading' = FALSE
    /\ inflight' = RemoveAt(inflight, i)
    /\ UNCHANGED <<code, language, tabValue, analysisMethod, analysisOptions,
                   selectedModel, fetches,
                   copySuccess, copies, timers, hasError>>

\* PostRejected, were the request sent again instead of given up.
PostRejectedRetry(i) ==
    /\ inflight[i].status \in {"non2xx", "network"}
    /\ inflight' = [inflight EXCEPT ![i] = Unanswered]
    /\ UNCHANGED <<code, language, explanation, error, loading, tabValue,
                   analysisMethod, analysisOptions, selectedModel, fetches, sections,
                   copySuccess, copies, timers, hasError>>

\* PostRejected, were the error only logged, as fetchAnalysisMethods does.
PostRejectedSilent(i) ==
    /\ inflight[i].status \in {"non2xx", "network"}
    /\ loading' = FALSE
    /\ inflight' = RemoveAt(inflight, i)
    /\ UNCHANGED <<code, language, explanation, error, tabValue, analysisMethod,
                   analysisOptions, selectedModel, fetches, sections,
                   copySuccess, copies, timers, hasError>>

\* analyzeCode after its await, the promise rejected: the catch block.
PostRejected(i) ==
    /\ inflight[i].status \in {"non2xx", "network"}
    /\ loading' = FALSE
    /\ error' = CatchError(inflight[i])
    /\ inflight' = RemoveAt(inflight, i)
    /\ UNCHANGED <<code, language, explanation, tabValue, analysisMethod,
                   analysisOptions, selectedModel, fetches, sections,
                   copySuccess, copies, timers, hasError>>

-----------------------------------------------------------------------------
(* The application in the browser *)

UserAction ==
    \/ \E value \in LanguageMenu : handleLanguageChange(value)
    \/ \E value \in MethodMenu : handleAnalysisMethodChange(value)
    \/ \E value \in ModelMenu : handleModelChange(value)
    \/ \E value \in UserCode : handleCodeChange(value)
    \/ \E newValue \in {0, 1} : handleTabChange(newValue)
    \/ handleLoadExample

Network ==
    \/ \E data \in ServerCatalogs : FetchResolved(data)
    \/ FetchRejected
    \/ \E i \in 1..Len(inflight), resp \in Responses : BackendAnswer(i, resp)
    \/ \E i \in 1..Len(inflight) : PostFulfilled(i)
    \/ \E i \in 1..Len(inflight) : PostRejected(i)

Next ==
    \/ UserAction
    \/ AnalyzeClick
    \/ Network

Spec == Init /\ [][Next]_vars

\* What the event loop guarantees: once the promise of a POST has settled, the
\* rest of analyzeCode runs.  Nothing makes the backend answer, nor the user act.
FairSpec ==
    /\ Init
    /\ [][Next]_vars
    /\ WF_vars(\E i \in 1..Len(inflight) : PostFulfilled(i))
    /\ WF_vars(\E i \in 1..Len(inflight) : PostRejected(i))

-----------------------------------------------------------------------------
(* CodeAnalyzer.js: handleCopyExample *)

\* A click on the copy button, which is rendered on the Example tab only:
\* navigator.clipboard.writeText is called and returns a pending promise.
handleCopyExample ==
    /\ tabValue = 1
    /\ copies + timers < MaxCopies
    /\ copies' = copies + 1
    /\ UNCHANGED <<code, language, explanation, error, loading, tabValue,
                   analysisMethod, analysisOptions, selectedModel, inflight,
                   fetches, sections, copySuccess, timers, hasError>>

\* The write succeeded: the .then callback sets copySuccess and starts the
\* timer of 2000 ms.
ClipboardResolved ==
    /\ copies > 0
    /\ copies' = copies - 1
    /\ copySuccess' = TRUE
    /\ timers' = timers + 1
    /\ UNCHANGED <<code, language, explanation, error, loading, tabValue,
                   analysisMethod, analysisOptions, selectedModel, inflight,
                   fetches, sections, hasError>>

\* The write failed: the promise has no rejection handler.
ClipboardRejected ==
    /\ copies > 0
    /\ copies' = copies - 1
    /\ UNCHANGED <<code, language, explanation, error, loading, tabValue,
                   analysisMethod, analysisOptions, selectedModel, inflight,
                   fetches, sections, copySuccess, timers, hasError>>

\* The oldest timer fires: () => setCopySuccess(false).  All timers have the
\* same delay, so they fire in the order they were started.
TimerFires ==
    /\ timers > 0
    /\ timers' = timers - 1
    /\ copySuccess' = FALSE
    /\ UNCHANGED <<code, language, explanation, error, loading, tabValue,
                   analysisMethod, analysisOptions, selectedModel, inflight,
                   fetches, sections, copies, hasError>>

\* The tooltip of the copy button.
CopyTooltip == IF copySuccess THEN "Copied!" ELSE "Copy example to clipboard"

NextCopy ==
    \/ \E newValue \in {0, 1} : handleTabChange(newValue)
    \/ \E value \in LanguageMenu : handleLanguageChange(value)
    \/ handleCopyExample
    \/ ClipboardResolved
    \/ ClipboardRejected
    \/ TimerFires

SpecCopy == Init /\ [][NextCopy]_vars

-----------------------------------------------------------------------------
(* index.js: ErrorBoundary *)

\* BoundaryRender, were the children rendered whatever the flag.
BoundaryRenderChildren == "children"

\* ErrorBoundary.render: the fallback 'Something went wrong.' or the children.
BoundaryRender == IF hasError THEN "fallback" ELSE "children"

\* CodeAnalyzer is mounted, and its handlers can run, while the boundary
\* renders its children.
Mounted == BoundaryRender = "children"

\* A render of the boundary's subtree throws: getDerivedStateFromError returns
\* {hasError: true}.  componentDidCatch stores the error and its component
\* stack, which only feed the details of the fallback.
RenderError ==
    /\ Mounted
    /\ hasError' = TRUE
    /\ UNCHANGED <<code, language, explanation, error, loading, tabValue,
                   analysisMethod, analysisOptions, selectedModel, inflight,
                   fetches, sections, copySuccess, copies, timers>>

\* A GET settles after CodeAnalyzer has been unmounted: the state updates of
\* fetchAnalysisMethods have no effect.
FetchSettledUnmounted ==
    /\ ~Mounted
    /\ fetches > 0
    /\ fetches' = fetches - 1
    /\ UNCHANGED <<code, language, explanation, error, loading, tabValue,
                   analysisMethod, analysisOptions, selectedModel, inflight,
                   sections, copySuccess, copies, timers, hasError>>

NextBoundary ==
    \/ Mounted /\ \E value \in UserCode : handleCodeChange(value)
    \/ Mounted /\ \E value \in LanguageMenu : handleLanguageChange(value)
    \/ Mounted /\ \E newValue \in {0, 1} : handleTabChange(newValue)
    \/ Mounted /\ \E data \in ServerCatalogs : FetchResolved(data)
    \/ Mounted /\ FetchRejected
    \/ RenderError
    \/ FetchSettledUnmounted

SpecBoundary == Init /\ [][NextBoundary]_vars

-----------------------------------------------------------------------------
(* analyzeCode called directly *)

NextCall ==
    \/ \E value \in UserCode : handleCodeChange(value)
    \/ AnalyzeCall
    \/ \E i \in 1..Len(inflight), resp \in Responses : BackendAnswer(i, resp)
    \/ \E i \in 1..Len(inflight) : PostFulfilled(i)
    \/ \E i \in 1..Len(inflight) : PostRejected(i)

SpecCall == Init /\ [][NextCall]_vars

-----------------------------------------------------------------------------
(* The explanation of any text: an analysis whose answer holds that text *)

\* The lines a text is made of: an empty line, a blank one, plain text, the two
\* headers, and a header followed by a blank.
TextLines ==
    {<<>>, <<" ">>, <<"x">>, <<"Functional Analysis:">>, <<"Variables defined:">>,
     <<"Functional Analysis:", " ">>}

RECURSIVE Join(_)
\* Array.prototype.join('\n')
Join(lines) ==
    IF lines = <<>> THEN <<>>
    ELSE IF Len(lines) = 1 THEN lines[1]
    ELSE lines[1] \o <<"\n">> \o Join(Tail(lines))

\* The empty text and every text of 1..MaxTextLines lines.
Texts == {Join(ls) : ls \in SeqsUpTo(TextLines, MaxTextLines)}

\* The example has been loaded and submitted, and the backend has answered with
\* a 2xx response whose full_explanation is any of Texts.
InitSections ==
    /\ code = codeExamples["javascript"]
    /\ language = "javascript"
    /\ explanation = <<>>
    /\ error = ""
    /\ loading = TRUE
    /\ tabValue = 0
    /\ analysisMethod = "rule"
    /\ analysisOptions = [methods |-> <<>>, models |-> <<>>]
    /\ selectedModel = ""
    /\ \E text \in Texts :
           inflight = <<[status |-> "2xx", isNull |-> FALSE,
                         data |-> [full_explanation |-> text]]>>
    /\ fetches = NumEffectRuns
    /\ sections = <<>>
    /\ copySuccess = FALSE
    /\ copies = 0
    /\ timers = 0
    /\ hasError = FALSE

NextSections == \E i \in 1..Len(inflight) : PostFulfilled(i)

SpecSections == InitSections /\ [][NextSections]_vars

-----------------------------------------------------------------------------
(* Properties: the outcome of an analysis request *)

\* The step hands the answer of the i-th pending POST to analyzeCode.
Consumed(i) ==
    /\ inflight[i] # Unanswered
    /\ inflight' = RemoveAt(inflight, i)

\* The answer carries a non-empty error field.
CarriesError(resp) ==
    /\ resp.status \in {"2xx", "non2xx"}
    /\ ~resp.isNull
    /\ HasError(resp.data)

\* The POST failed: it was rejected, or its 2xx body is null or bears an error.
Failed(resp) ==
    \/ resp.status \in {"non2xx", "network"}
    \/ resp.isNull
    \/ HasError(resp.data)

\* The number of POSTs the backend has not answered.
PendingCount(s) == Cardinality({k \in 1..Len(s) : s[k] = Unanswered})

\* C1: when the POST is fulfilled with a body of the documented shape
\* {explanation: s}, without an error field, explanation becomes s.
C1_DocumentedShape ==
    [][\A i \in 1..Len(inflight) :
         (/\ Consumed(i)
          /\ inflight[i].status = "2xx"
          /\ ~inflight[i].isNull
          /\ DOMAIN inflight[i].data = {"explanation"})
         => explanation' = inflight[i].data.explanation]_vars

\* C2: in every state, whatever the catalog fetched, the body analyzeCode would
\* post has language in {javascript, python, java, c++} and analysis_method in
\* {rule, nlp}.
C2_BodyEnums ==
    /\ RequestData.language \in {"javascript", "python", "java", "c++"}
    /\ RequestData.analysis_method \in {"rule", "nlp"}

\* A POST is pending, sent with 'c++' and 'nlp' selected on the Example tab,
\* while the catalog fetched lists a method the form does not offer.
C2_Witness ==
    /\ loading
    /\ Len(inflight) = 1
    /\ language = "c++"
    /\ analysisMethod = "nlp"
    /\ tabValue = 1
    /\ \E k \in 1..Len(analysisOptions.methods) :
           analysisOptions.methods[k] \notin {"rule", "nlp"}

\* C3: analyzeCode called with empty or whitespace-only code sends no POST, sets
\* error to 'Please enter some code to analyze' and leaves loading and
\* explanation as they are.
C3_EmptyCodeRejected ==
    [][(Trim(code) = <<>> /\ analyzeCode)
       => /\ inflight' = inflight
          /\ error' = "Please enter some code to analyze"
          /\ loading' = loading
          /\ explanation' = explanation]_vars

\* analyzeCode was called with whitespace-only code after an analysis had
\* succeeded: the message is set, the explanation is still there.
C3_Witness ==
    /\ code = <<" ">>
    /\ error = "Please enter some code to analyze"
    /\ explanation # <<>>
    /\ inflight = <<>>

\* C4: a step sends at most one POST; a POST is sent only by a click on the
\* enabled button, added to the pending ones and carrying the selected
\* analysis_method; no step that handles an answer sends one, so a failed POST
\* is neither retried nor replaced by a 'rule' request.
C4_SingleAttempt ==
    [][/\ PendingCount(inflight') <= PendingCount(inflight) + 1
       /\ PendingCount(inflight') > PendingCount(inflight)
          => /\ Len(inflight') = Len(inflight) + 1
             /\ ~ButtonDisabled
             /\ RequestData.analysis_method = analysisMethod
       /\ \A i \in 1..Len(inflight) :
            (inflight[i] # Unanswered /\ inflight' # inflight)
            => inflight' = RemoveAt(inflight, i)]_vars

\* An 'nlp' request has failed without a response: the error is shown, nothing
\* is pending and no explanation was obtained by other means.
C4_Witness ==
    /\ ~loading
    /\ inflight = <<>>
    /\ error = GenericErrorMsg
    /\ analysisMethod = "nlp"
    /\ explanation = <<>>

\* C5: the step that handles the answer of a POST ends with loading false and
\* with exactly one of: a non-empty explanation and no error (Succeeded); a
\* non-empty error and the explanation as it was (Failed).
C5_TwoOutcomes ==
    [][Len(inflight') < Len(inflight)
       => /\ loading' = FALSE
          /\ \/ (explanation' # <<>> /\ error' = "")
             \/ (error' # "" /\ explanation' = explanation)]_vars

\* A request has succeeded with a body that holds none of the fields read.
C5_Witness ==
    /\ ~loading
    /\ inflight = <<>>
    /\ error = ""
    /\ explanation = NoExplanationMsg

\* C6: whenever loading is false and error is non-empty, explanation is empty.
C6_NoExplanationWithError ==
    (~loading /\ error # "") => explanation = <<>>

\* C7: handling the answer of a POST ends with loading false; an answer with a
\* non-empty error field e, 2xx or not, sets error to e; a rejected POST without
\* such a field sets it to 'Failed to analyze code. Please try again later.'.
C7_ErrorVerbatim ==
    [][\A i \in 1..Len(inflight) :
         Consumed(i)
         => /\ loading' = FALSE
            /\ CarriesError(inflight[i]) => error' = inflight[i].data.error
            /\ (inflight[i].status \in {"non2xx", "network"}
                /\ ~CarriesError(inflight[i]))
               => error' = "Failed to analyze code. Please try again later."]_vars

\* The backend's error is shown after an earlier analysis had succeeded.
C7_Witness ==
    /\ ~loading
    /\ inflight = <<>>
    /\ error = "E1"
    /\ explanation = TextB

\* C8, as claimed: whenever a backend call fails, the GET as well as the POST,
\* error becomes non-empty.
C8_NoFailureSwallowed ==
    [][/\ FetchRejected => error' # ""
       /\ \A i \in 1..Len(inflight) :
            (Consumed(i) /\ Failed(inflight[i])) => error' # ""]_vars

\* C8, amended: whenever the POST fails, error becomes non-empty; when the GET
\* fails, error is left as it is and the hard-coded catalog is installed.
C8_PostFailureShown ==
    [][/\ FetchRejected => (error' = error /\ analysisOptions' = FallbackOptions)
       /\ \A i \in 1..Len(inflight) :
            (Consumed(i) /\ Failed(inflight[i])) => error' # ""]_vars

\* Both GETs have settled, one of them failing last, and a POST has failed.
C8_Witness ==
    /\ fetches = 0
    /\ analysisOptions = FallbackOptions
    /\ ~loading
    /\ inflight = <<>>
    /\ error # ""

\* C9: every request that has been sent (loading true) eventually completes
\* (loading false), also when the backend never answers.
C9_BoundedWait == loading ~> ~loading

-----------------------------------------------------------------------------
(* Properties: the form and the request it sends *)

\* C13: the model selector is displayed if and only if analysisMethod is 'nlp':
\* choosing 'nlp' makes it appear, choosing 'rule' removes it, and no other
\* step (an answer to the GET, a choice of model) shows or hides it.
C13_ModelSelectorIffNlp ==
    [][/\ ModelSelectShown' <=> analysisMethod' = "nlp"
       /\ handleAnalysisMethodChange("nlp") => ModelSelectShown'
       /\ handleAnalysisMethodChange("rule") => ~ModelSelectShown'
       /\ ~(\E value \in MethodMenu : handleAnalysisMethodChange(value))
          => (ModelSelectShown' <=> ModelSelectShown)]_vars

\* 'nlp' is chosen before any GET has been answered: no model in the catalog,
\* none selected, and the selector is displayed.
C13_Witness ==
    /\ ModelSelectShown
    /\ fetches = NumEffectRuns
    /\ analysisOptions.models = <<>>
    /\ selectedModel = ""

\* C14: the body analyzeCode posts has model_name if and only if analysisMethod
\* is 'nlp' and selectedModel is non-empty, model_name is then selectedModel,
\* and a 'rule' body never has model_name.
C14_ModelNameIffNlp ==
    /\ "model_name" \in DOMAIN RequestData
       <=> (analysisMethod = "nlp" /\ selectedModel # "")
    /\ "model_name" \in DOMAIN RequestData => RequestData.model_name = selectedModel
    /\ analysisMethod = "rule" => "model_name" \notin DOMAIN RequestData

\* The button is enabled with 'rule' chosen while a model is selected.
C14_Witness ==
    /\ ~ButtonDisabled
    /\ analysisMethod = "rule"
    /\ selectedModel = "gemini-1.5-flash"

\* C15: when the GET fails, the catalog becomes one of exactly 2 methods and
\* exactly 3 models and selectedModel becomes 'gemini-1.5-flash', the first of
\* the models, so that the model selector offers 3 models.
C15_FallbackCatalog ==
    [][FetchRejected
       => /\ Len(analysisOptions'.methods) = 2
          /\ Len(analysisOptions'.models) = 3
          /\ selectedModel' = "gemini-1.5-flash"
          /\ selectedModel' = analysisOptions'.models[1]
          /\ Cardinality(ModelMenu') = 3
          /\ selectedModel' \in ModelMenu']_vars

\* A GET has failed while 'nlp' was chosen: the selector is displayed, with the
\* three models and the first of them selected.
C15_Witness ==
    /\ fetches < NumEffectRuns
    /\ ModelSelectShown
    /\ Cardinality(ModelMenu) = 3
    /\ selectedModel = "gemini-1.5-flash"
    /\ analysisOptions.models[1] = "gemini-1.5-flash"

\* C16: every language of the menu has a sample; right after handleLoadExample,
\* after handleTabChange to the Example tab and after handleLanguageChange on
\* the Example tab, code is the sample of the language then selected; after
\* every step code is a string.
C16_ExampleLoaded ==
    [][/\ LanguageMenu \subseteq DOMAIN codeExamples
       /\ language' \in DOMAIN codeExamples
       /\ code' \in Seq({" ", "\n", "a", "example"} \cup LanguageMenu)
       /\ handleLoadExample => code' = codeExamples[language']
       /\ handleTabChange(1) => code' = codeExamples[language']
       /\ (tabValue = 1 /\ \E value \in LanguageMenu : handleLanguageChange(value))
          => code' = codeExamples[language']]_vars

\* On the Example tab with 'c++' selected, its sample in the editor.
C16_Witness ==
    /\ tabValue = 1
    /\ language = "c++"
    /\ code = codeExamples["c++"]

\* C17: a step that sends a POST leaves the pending ones as they are and sends
\* a body made of code, language, analysisMethod and selectedModel as they are at
\* that moment and of nothing else; a step that changes the code, a selection
\* or the tab neither removes nor alters a pending POST; and when the answer of
\* a pending POST is handled and is a success, it becomes the explanation,
\* whatever the code and the selections have become.
C17_RequestIndependent ==
    [][/\ Len(inflight') > Len(inflight)
          => /\ inflight' = Append(inflight, Unanswered)
             /\ DOMAIN RequestData \subseteq
                    {"code", "language", "analysis_method", "model_name"}
             /\ RequestData.code = code
             /\ RequestData.language = language
             /\ RequestData.analysis_method = analysisMethod
             /\ "model_name" \in DOMAIN RequestData
                => RequestData.model_name = selectedModel
       /\ <<code, language, analysisMethod, selectedModel, tabValue>>'
              # <<code, language, analysisMethod, selectedModel, tabValue>>
          => (inflight' = inflight /\ loading' = loading)
       /\ \A i \in 1..Len(inflight) :
            (/\ Consumed(i)
             /\ inflight[i].status = "2xx"
             /\ ~inflight[i].isNull
             /\ ~HasError(inflight[i].data))
            => explanation' = ExplanationOf(inflight[i].data)]_vars

\* The POST was sent with code that had text; the code has since been replaced
\* by a blank, the method and the language changed, and the answer has arrived
\* and waits to be handled.
C17_Witness ==
    /\ loading
    /\ Len(inflight) = 1
    /\ inflight[1].status = "2xx"
    /\ code = <<" ">>
    /\ language = "python"
    /\ analysisMethod = "nlp"

\* C18: CodeExplanation shows exactly one of three views: the skeleton if and
\* only if loading; the placeholder if and only if not loading and explanation
\* is empty; the section list otherwise.  While loading, an earlier explanation
\* is not displayed.
C18_OneView ==
    /\ View(loading, explanation) \in {"skeleton", "placeholder", "sections"}
    /\ View(loading, explanation) = "skeleton" <=> loading
    /\ View(loading, explanation) = "placeholder"
       <=> (~loading /\ explanation = <<>>)
    /\ View(loading, explanation) = "sections"
       <=> (~loading /\ explanation # <<>>)

\* A second analysis is running: the explanation of the first is still in the
\* state and the skeleton is shown.
C18_Witness ==
    /\ loading
    /\ Len(inflight) = 1
    /\ explanation = TextB
    /\ View(loading, explanation) = "skeleton"

\* C20: at most one POST /explain/ is in flight at any time.
C20_OneInFlight == Len(inflight) <= 1

\* A POST is in flight and the code has text: only the loading flag keeps the
\* button disabled.
C20_Witness ==
    /\ Len(inflight) = 1
    /\ inflight[1] = Unanswered
    /\ loading
    /\ Trim(code) # <<>>
    /\ ButtonDisabled

\* C21: the Analyze button is enabled only when loading is false and code has
\* a character that is not whitespace; analyzeCode is thus never reached with
\* blank code, and error is never 'Please enter some code to analyze'.
C21_EmptyCodeUnreachable ==
    /\ ~ButtonDisabled
       <=> (~loading /\ \E k \in 1..Len(code) : ~IsSpace(code[k]))
    /\ error # "Please enter some code to analyze"

\* The editor holds whitespace only, after an analysis has failed: the button
\* is disabled though nothing is loading.
C21_Witness ==
    /\ code = <<" ">>
    /\ ~loading
    /\ ButtonDisabled
    /\ error = GenericErrorMsg

\* C24: handleLanguageChange sets the language; it replaces code by the sample
\* of the new language when the Example tab is active or code is the empty
\* string; on the 'Your Code' tab with non-empty code, whitespace-only code
\* included, it leaves code, explanation, error and tabValue as they are.
C24_LanguageChangeFrame ==
    [][\A value \in LanguageMenu :
         handleLanguageChange(value)
         => /\ language' = value
            /\ (tabValue = 1 \/ code = <<>>) => code' = codeExamples[value]
            /\ (tabValue = 0 /\ code # <<>>)
               => /\ code' = code
                  /\ explanation' = explanation
                  /\ error' = error
                  /\ tabValue' = tabValue]_vars

\* On 'Your Code' the editor holds a blank and the language has been changed.
C24_Witness ==
    /\ tabValue = 0
    /\ code = <<" ">>
    /\ language = "java"

\* C25: handleTabChange to the 'Your Code' tab changes tabValue only, so code
\* stays what the editor held on the Example tab; handleTabChange to the
\* Example tab has replaced whatever the user had entered by the sample.
C25_TabChangeFrame ==
    [][/\ handleTabChange(0)
          => /\ tabValue' = 0
             /\ UNCHANGED <<code, language, explanation, error, loading,
                            analysisMethod, analysisOptions, selectedModel,
                            inflight, fetches, sections, copySuccess, copies,
                            timers, hasError>>
       /\ handleTabChange(1)
          => (tabValue' = 1 /\ code' = codeExamples[language])]_vars

\* Back on 'Your Code' after a visit of the Example tab with 'python' selected
\* and a change of language since: the editor still holds the python sample.
C25_Witness ==
    /\ tabValue = 0
    /\ code = codeExamples["python"]
    /\ language = "c++"

\* The ids of the models of the catalog.
CatalogModels ==
    {analysisOptions.models[k] : k \in 1..Len(analysisOptions.models)}

\* C22: in every state selectedModel is the empty string or the id of a model
\* of analysisOptions.models.
C22_SelectedInCatalog ==
    selectedModel = "" \/ selectedModel \in CatalogModels

\* The selected model is a model of the catalog other than its first one, which
\* only a choice in model-select brings about: an answer to the GET selects
\* the first model of the catalog it installs, or none.
UserPicked ==
    /\ selectedModel \in CatalogModels
    /\ selectedModel # analysisOptions.models[1]

\* C23: once the user has picked a model from a loaded catalog, selectedModel
\* changes only by another choice in model-select, not by an answer to a GET.
C23_PickKept ==
    [][(UserPicked /\ selectedModel' # selectedModel)
       => \E value \in ModelMenu : handleModelChange(value)]_vars

-----------------------------------------------------------------------------
(* Properties: the sections of an explanation *)

\* C10: for every non-empty explanation text there is at least one section and
\* one of the sections is titled 'Summary'.
C10_SummaryAlways ==
    explanation # <<>>
    => /\ Len(sections) >= 1
       /\ \E k \in 1..Len(sections) : sections[k].title = "Summary"

\* C11: the titles of the sections follow the order Summary, Functional
\* Analysis, Variables: a Summary section is the first one, no Functional
\* Analysis section comes after a Variables section, and no title occurs twice.
C11_FixedOrder ==
    /\ \A k \in 1..Len(sections) : sections[k].title = "Summary" => k = 1
    /\ \A j, k \in 1..Len(sections) :
         j < k => ~(/\ sections[j].title = "Variables"
                    /\ sections[k].title = "Functional Analysis")
    /\ \A j, k \in 1..Len(sections) :
         j < k => sections[j].title # sections[k].title

\* C12: no section is empty: every section of the list shows at least one list
\* item, that is, has a line with text other than whitespace.
C12_NoEmptySection ==
    \A k \in 1..Len(sections) : ListItems(sections[k]) # <<>>

\* C19: whenever a line of the explanation is 'Variables defined:', one of the
\* sections is titled 'Variables' and that line is among its lines.
C19_VariablesSection ==
    (\E n \in 1..Len(ExplanationLines(explanation)) :
         ExplanationLines(explanation)[n] = <<"Variables defined:">>)
    => \E k \in 1..Len(sections) :
           /\ sections[k].title = "Variables"
           /\ \E n \in 1..Len(sections[k].lines) :
                  sections[k].lines[n] = <<"Variables defined:">>

RECURSIVE AllLines(_)
\* The lines of the sections, one section after the other.
AllLines(secs) ==
    IF secs = <<>> THEN <<>> ELSE Head(secs).lines \o AllLines(Tail(secs))

\* C26: groupExplanationSections loses no content: the lines of the sections,
\* taken in order, are the lines of the text without those equal to
\* 'Functional Analysis:'; no other line is dropped, duplicated or moved.
C26_NoContentLost ==
    AllLines(sections)
        = SelectSeq(ExplanationLines(explanation),
                    LAMBDA line : line # <<"Functional Analysis:">>)

\* A text with both headers has been cut into three sections, the header of
\* the variables being a line of the third.
C26_Witness ==
    /\ Len(ExplanationLines(explanation)) = MaxTextLines
    /\ Len(sections) = 3
    /\ sections[2].title = "Functional Analysis"
    /\ sections[3].lines = <<<<"Variables defined:">>>>

-----------------------------------------------------------------------------
(* Properties: the copy button and the error boundary *)

\* C27: once a render error has set hasError, the boundary renders the
\* fallback and no later step returns it to rendering its children; as long as
\* there has been no error it renders its children.
C27_BoundaryAbsorbing ==
    [][/\ RenderError => hasError'
       /\ hasError => (hasError' /\ BoundaryRender' = "fallback")
       /\ ~hasError' => BoundaryRender' = "children"]_vars

\* A render threw before any GET was answered, and both GETs have settled
\* since: the fallback is still what is rendered.
C27_Witness ==
    /\ hasError
    /\ BoundaryRender = "fallback"
    /\ fetches = 0
    /\ analysisOptions = [methods |-> <<>>, models |-> <<>>]

\* C28: after a successful copy copySuccess is true until the timer started by
\* that copy fires, also when several copies succeed within one timer period:
\* while a timer is due, that of the last copy is, and copySuccess is true;
\* once all timers have fired copySuccess is false.
C28_CopiedUntilTimer ==
    /\ timers > 0 => copySuccess
    /\ timers = 0 => ~copySuccess

====
